---- MODULE Spec2Model ----
(***************************************************************************)
(* Model of db-sync: the schema differ (db_utils.compare_metadata), the    *)
(* script synthesizer (app.generate_sync_script) and the table filter      *)
(* (app.should_exclude_table).                                             *)
(*                                                                         *)
(* Python values are represented as follows.                               *)
(*  - a str whose characters matter (a default literal, a table name or a  *)
(*    pattern given to the filter) is a sequence of one-character strings; *)
(*    other strs (type names, comments, table and column names of the      *)
(*    snapshots) are TLA+ strings;                                         *)
(*  - a dict is a function; where the code iterates it, its key order is   *)
(*    carried beside it as a sequence;                                     *)
(*  - list(<set>) and iteration over a set have no defined order: every    *)
(*    permutation is a possible outcome;                                   *)
(*  - a raised exception is a result record with status "KeyError".        *)
(***************************************************************************)
EXTENDS Integers, Sequences, FiniteSets, TLC

VARIABLES src_meta, tgt_meta, diff, selected_tables, selected_columns,
          script, table_name, exclude_tables, excluded, pc

vars == <<src_meta, tgt_meta, diff, selected_tables, selected_columns,
          script, table_name, exclude_tables, excluded, pc>>

----------------------------------------------------------------------------
(* Bounds of the model. *)

\* number of column names a table of the snapshots draws from
MaxCols == 2
\* longest table name given to the filter
MaxNameLen == 3
\* longest exclusion pattern
MaxPatLen == 2
\* longest exclusion list
MaxPatterns == 2

----------------------------------------------------------------------------
(* Generic helpers. *)

Range(s) == {s[i] : i \in DOMAIN s}

\* every order in which list(S) may enumerate the set S
Perms(S) ==
    {s \in [1..Cardinality(S) -> S] : \A i, j \in DOMAIN s : i # j => s[i] # s[j]}

\* x in <list>
InList(x, s) == \E i \in DOMAIN s : s[i] = x

\* sequences over S of length at most n
SeqsUpTo(S, n) == UNION {[1..k -> S] : k \in 0..n}

----------------------------------------------------------------------------
(* Data: column definitions, table definitions, snapshots. *)

\* python's None: dict.get(key) on a missing key, and the comment an
\* inspector reports for a column or a table that has none
None == "<None>"
\* a key that the dict does not have
Absent == "<absent>"

\* A default is None, a str or a number. v holds the characters of str(value).
\* n stands for a number's value: numbers that python holds equal (1, 1.0 and
\* True) have the same n and may differ in v.
NoDefault == [k |-> "none", v |-> <<>>, n |-> 0]
StrDefault(chars) == [k |-> "str", v |-> chars, n |-> 0]
NumDefault(n, chars) == [k |-> "num", v |-> chars, n |-> n]
\* float('nan') as an operand of the comparison of defaults: python holds it
\* equal to no value. No inspector reports it as a column default, and no
\* snapshot below holds it.
NaNDefault == [k |-> "nan", v |-> <<"n", "a", "n">>, n |-> 0]

\* col_comment of get_table_metadata (lines 62-64): '' for an inspector column
\* without a 'comment' key, the key's value (a str or None) otherwise
StoredColumnComment(comment) == IF comment = Absent THEN "" ELSE comment

\* table_comment of get_table_metadata (lines 50-53): the 'text' of the
\* inspector's answer, '' when the answer has no 'text'
StoredTableComment(text) == IF text = Absent THEN "" ELSE text

ColDef(type, nullable, default, comment) ==
    [type |-> type, nullable |-> nullable, default |-> default, comment |-> comment]

TableDef(order, columns, primary_key, comment) ==
    [order |-> order, columns |-> columns, primary_key |-> primary_key,
     comment |-> comment]

ColNameList == <<"a", "b", "c", "d">>
ColNames == {ColNameList[i] : i \in 1..MaxCols}
TableNames == {"t1", "t2"}

\* the names of S in the order of ColNameList
RECURSIVE Sorted(_, _)
Sorted(S, i) ==
    IF i > Len(ColNameList) THEN <<>>
    ELSE (IF ColNameList[i] \in S THEN <<ColNameList[i]>> ELSE <<>>)
         \o Sorted(S, i + 1)

Reverse(s) == [i \in 1..Len(s) |-> s[Len(s) + 1 - i]]

----------------------------------------------------------------------------
(* db_utils.compare_metadata *)

\* src_def["default"] == tgt_def["default"]: NaN equals nothing, itself
\* included; other numbers are equal by value, a str equals a str of the same
\* characters, None equals None only
DefaultsEqual(a, b) ==
    IF a.k = NaNDefault.k \/ b.k = NaNDefault.k THEN FALSE
    ELSE IF a.k = "num" /\ b.k = "num" THEN a.n = b.n
    ELSE a = b

\* col_def.get("comment")
GetComment(col_def) == IF col_def.comment = Absent THEN None ELSE col_def.comment

\* col_def.get("comment", "") and table.get("comment", "")
GetCommentOrEmpty(d) == IF d.comment = Absent THEN "" ELSE d.comment

\* a variant that reads a None comment of the source as ''
ChangedAttrsSourceOrEmpty(src_def, tgt_def) ==
    (IF src_def.type # tgt_def.type THEN {"type"} ELSE {})
    \cup (IF src_def.nullable # tgt_def.nullable THEN {"nullable"} ELSE {})
    \cup (IF ~DefaultsEqual(src_def.default, tgt_def.default) THEN {"default"} ELSE {})
    \cup (IF (IF GetComment(src_def) = None THEN "" ELSE GetComment(src_def))
               # GetComment(tgt_def)
            THEN {"comment"} ELSE {})

\* the keys of the dict `changes` built for one common column
ChangedAttrs(src_def, tgt_def) ==
    (IF src_def.type # tgt_def.type THEN {"type"} ELSE {})
    \cup (IF src_def.nullable # tgt_def.nullable THEN {"nullable"} ELSE {})
    \cup (IF ~DefaultsEqual(src_def.default, tgt_def.default) THEN {"default"} ELSE {})
    \cup (IF GetComment(src_def) # GetComment(tgt_def) THEN {"comment"} ELSE {})

\* the dict `changes`: attribute -> {"src": ..., "tgt": ...}
Changes(src_def, tgt_def) ==
    [a \in ChangedAttrs(src_def, tgt_def) |->
        CASE a = "type" -> [src |-> src_def.type, tgt |-> tgt_def.type]
          [] a = "nullable" -> [src |-> src_def.nullable, tgt |-> tgt_def.nullable]
          [] a = "default" -> [src |-> src_def.default, tgt |-> tgt_def.default]
          [] a = "comment" -> [src |-> GetCommentOrEmpty(src_def),
                               tgt |-> GetCommentOrEmpty(tgt_def)]]

\* the entry col_diff["changed"][col]
ChangedEntry(src_def, tgt_def) ==
    [src |-> src_def, tgt |-> tgt_def, changes |-> Changes(src_def, tgt_def)]

\* src_col_names - tgt_col_names
ColMissing(src_t, tgt_t) == DOMAIN src_t.columns \ DOMAIN tgt_t.columns

\* a variant that forgets to subtract the source's columns
ColExtraAllTarget(src_t, tgt_t) == DOMAIN tgt_t.columns

\* tgt_col_names - src_col_names
ColExtra(src_t, tgt_t) == DOMAIN tgt_t.columns \ DOMAIN src_t.columns

\* the common columns for which `changes` is not empty
ColChanged(src_t, tgt_t) ==
    {c \in DOMAIN src_t.columns \cap DOMAIN tgt_t.columns :
        ChangedAttrs(src_t.columns[c], tgt_t.columns[c]) # {}}

\* comment_changed
CommentChanged(src_t, tgt_t) == GetCommentOrEmpty(src_t) # GetCommentOrEmpty(tgt_t)

\* a variant that leaves col_diff["extra"] out of the condition
TableIsChangedNoExtra(src_t, tgt_t) ==
    \/ ColMissing(src_t, tgt_t) # {}
    \/ ColChanged(src_t, tgt_t) # {}
    \/ CommentChanged(src_t, tgt_t)

\* the condition under which a common table is appended to tables.changed
TableIsChanged(src_t, tgt_t) ==
    \/ ColMissing(src_t, tgt_t) # {}
    \/ ColExtra(src_t, tgt_t) # {}
    \/ ColChanged(src_t, tgt_t) # {}
    \/ CommentChanged(src_t, tgt_t)

\* the values col_diff can take for one common table: the lists come from
\* list(<set>) and the dict `changed` is filled while iterating a set
ColDiffs(src_t, tgt_t) ==
    LET changed == [c \in ColChanged(src_t, tgt_t) |->
                       ChangedEntry(src_t.columns[c], tgt_t.columns[c])]
    IN  {[missing |-> m, extra |-> e, changed_keys |-> k, changed |-> changed] :
            m \in Perms(ColMissing(src_t, tgt_t)),
            e \in Perms(ColExtra(src_t, tgt_t)),
            k \in Perms(DOMAIN changed)}

\* the common tables that are appended to tables.changed
ChangedTables(src, tgt) ==
    {t \in DOMAIN src \cap DOMAIN tgt : TableIsChanged(src[t], tgt[t])}

\* a variant that records col_diff for every common table
ColumnsKeysAllCommon(src, tgt) == DOMAIN src \cap DOMAIN tgt

\* the tables that get an entry diff["columns"][table]
ColumnsKeys(src, tgt) == ChangedTables(src, tgt)

\* the values compare_metadata(src_meta, tgt_meta) can return
compare_metadata(src, tgt) ==
    LET keys == ColumnsKeys(src, tgt)
        col_diffs == [t \in keys |-> ColDiffs(src[t], tgt[t])]
    IN  {[tables |-> [missing |-> m, extra |-> e, changed |-> c], columns |-> cols] :
            m \in Perms(DOMAIN src \ DOMAIN tgt),
            e \in Perms(DOMAIN tgt \ DOMAIN src),
            c \in Perms(ChangedTables(src, tgt)),
            cols \in {f \in [keys -> UNION {col_diffs[t] : t \in keys}] :
                         \A t \in keys : f[t] \in col_diffs[t]}}

\* the dict `diff` as first assigned (lines 92-99)
EmptyDiff ==
    [tables |-> [missing |-> <<>>, extra |-> <<>>, changed |-> <<>>],
     columns |-> <<>>]

----------------------------------------------------------------------------
(* app.generate_sync_script *)

\* re.match(r"^'.*'$", default_val): a quote, then characters none of which is
\* a newline, then a quote at the end of the str or before one final newline
MatchesQuoted(chars) ==
    LET n == IF Len(chars) > 0 /\ chars[Len(chars)] = "\n"
               THEN Len(chars) - 1 ELSE Len(chars)
    IN  /\ n >= 2
        /\ chars[1] = "'"
        /\ chars[n] = "'"
        /\ \A i \in 2..(n - 1) : chars[i] # "\n"

\* default_val as embedded after DEFAULT
QuoteDefault(d) ==
    IF d.k = "str" /\ ~MatchesQuoted(d.v) THEN <<"'">> \o d.v \o <<"'">> ELSE d.v

NoLiteral == [has |-> FALSE, text |-> <<>>]

\* the DEFAULT part: present when col_def.get("default") is not None
DefaultLiteral(d) ==
    IF d.k = "none" THEN NoLiteral ELSE [has |-> TRUE, text |-> QuoteDefault(d)]

\* "<type>[ NOT NULL][ DEFAULT <literal>]" of col_def_str
ColumnClause(col_def) ==
    [type |-> col_def.type, notnull |-> ~col_def.nullable,
     default |-> DefaultLiteral(col_def.default)]

NoClause == [type |-> "", notnull |-> FALSE, default |-> NoLiteral]

\* One record per line of the script. A kind that starts with "--" is a line
\* the script carries as an SQL comment.
TextLine(kind, table) ==
    [kind |-> kind, table |-> table, col |-> "", clause |-> NoClause, pk |-> <<>>]
StmtLine(kind, table, col, clause) ==
    [kind |-> kind, table |-> table, col |-> col, clause |-> clause, pk |-> <<>>]
PKLine(table, pk) ==
    [kind |-> "PRIMARY KEY", table |-> table, col |-> "", clause |-> NoClause, pk |-> pk]

\* a variant in which a table without an entry has every column selected
SelectedColumnsOfDefaultAll(sel_c, table) ==
    IF table \in DOMAIN sel_c THEN sel_c[table] ELSE Sorted(ColNames, 1)

\* selected_columns.get(table, [])
SelectedColumnsOf(sel_c, table) == IF table \in DOMAIN sel_c THEN sel_c[table] ELSE <<>>

\* a variant that renders the target side of the change
ModifyDefTarget(entry) == entry.tgt

\* src_def = changes["src"]
ModifyDef(entry) == entry.src

\* col_definitions: a clause per selected column, in the order of src_cols.items()
RECURSIVE CreateClauses(_, _, _, _)
CreateClauses(table, src_t, order, selected) ==
    IF order = <<>> THEN <<>>
    ELSE (IF InList(Head(order), selected)
            THEN <<StmtLine("COLUMN", table, Head(order),
                            ColumnClause(src_t.columns[Head(order)]))>>
            ELSE <<>>)
         \o CreateClauses(table, src_t, Tail(order), selected)

\* a variant that keeps only the selected columns in the key clause
CreateBlockKeySelected(table, src_t, selected) ==
    <<TextLine("-- create", table), TextLine("CREATE TABLE (", table)>>
    \o CreateClauses(table, src_t, src_t.order, selected)
    \o (IF SelectSeq(src_t.primary_key, LAMBDA c : InList(c, selected)) # <<>>
          THEN <<PKLine(table, SelectSeq(src_t.primary_key,
                                         LAMBDA c : InList(c, selected)))>>
          ELSE <<>>)
    \o <<TextLine(");", table)>>

\* the block of a table of tables.missing (lines 356-382)
CreateBlock(table, src_t, selected) ==
    <<TextLine("-- create", table), TextLine("CREATE TABLE (", table)>>
    \o CreateClauses(table, src_t, src_t.order, selected)
    \o (IF src_t.primary_key # <<>> THEN <<PKLine(table, src_t.primary_key)>> ELSE <<>>)
    \o <<TextLine(");", table)>>

\* the loop over table_diff["missing"] (lines 390-402)
RECURSIVE AddStatements(_, _, _, _)
AddStatements(table, src_t, missing, selected) ==
    IF missing = <<>> THEN <<>>
    ELSE (IF InList(Head(missing), selected)
            THEN <<StmtLine("ADD COLUMN", table, Head(missing),
                            ColumnClause(src_t.columns[Head(missing)]))>>
            ELSE <<>>)
         \o AddStatements(table, src_t, Tail(missing), selected)

\* the loop over table_diff["changed"].items() (lines 405-417)
RECURSIVE ModifyStatements(_, _, _, _)
ModifyStatements(table, changed, keys, selected) ==
    IF keys = <<>> THEN <<>>
    ELSE (IF InList(Head(keys), selected)
            THEN <<StmtLine("MODIFY COLUMN", table, Head(keys),
                            ColumnClause(ModifyDef(changed[Head(keys)])))>>
            ELSE <<>>)
         \o ModifyStatements(table, changed, Tail(keys), selected)

\* the block of a table of tables.changed (lines 385-417)
AlterBlock(table, src_t, table_diff, selected) ==
    <<TextLine("-- alter", table)>>
    \o AddStatements(table, src_t, table_diff.missing, selected)
    \o ModifyStatements(table, table_diff.changed, table_diff.changed_keys, selected)

\* one iteration of the loop over selected_tables, for a table of src_meta
TableBlock(src, d, table, sel_c) ==
    IF InList(table, d.tables.missing)
      THEN CreateBlock(table, src[table], SelectedColumnsOf(sel_c, table))
    ELSE IF InList(table, d.tables.changed)
      THEN AlterBlock(table, src[table], d.columns[table],
                      SelectedColumnsOf(sel_c, table))
    ELSE <<>>

RECURSIVE TableBlocks(_, _, _, _)
TableBlocks(src, d, sel_t, sel_c) ==
    IF sel_t = <<>> THEN <<>>
    ELSE TableBlock(src, d, Head(sel_t), sel_c) \o TableBlocks(src, d, Tail(sel_t), sel_c)

\* extra_tables = [t for t in diff["tables"]["extra"] if t in selected_tables]
ExtraTables(d, sel_t) == SelectSeq(d.tables.extra, LAMBDA t : InList(t, sel_t))

\* the advisory lines for extra tables (lines 424-428)
ExtraBlock(extra_tables) ==
    IF extra_tables = <<>> THEN <<>>
    ELSE <<TextLine("-- extra tables", "")>>
         \o [i \in 1..Len(extra_tables) |-> TextLine("-- DROP TABLE", extra_tables[i])]

\* src_meta[table] raises KeyError for a selected table that src_meta lacks
RaisesKeyError(src, sel_t) == \E i \in DOMAIN sel_t : sel_t[i] \notin DOMAIN src

KeyError == [status |-> "KeyError", lines |-> <<>>]

\* generate_sync_script, without the header's connection id and timestamp
generate_sync_script(src, tgt, d, sel_t, sel_c) ==
    IF RaisesKeyError(src, sel_t) THEN KeyError
    ELSE [status |-> "ok",
          lines |-> <<TextLine("-- header", "")>>
                    \o TableBlocks(src, d, sel_t, sel_c)
                    \o ExtraBlock(ExtraTables(d, sel_t))
                    \o <<TextLine("-- done", "")>>]

----------------------------------------------------------------------------
(* app.should_exclude_table *)

\* pattern.endswith('*')
EndsWithStar(pattern) == Len(pattern) > 0 /\ pattern[Len(pattern)] = "*"

\* table_name.startswith(prefix)
StartsWith(name, prefix) ==
    Len(prefix) <= Len(name) /\ SubSeq(name, 1, Len(prefix)) = prefix

\* a variant that matches every pattern as a prefix
PatternMatchesPrefixAlways(name, pattern) ==
    IF EndsWithStar(pattern)
      THEN StartsWith(name, SubSeq(pattern, 1, Len(pattern) - 1))
      ELSE StartsWith(name, pattern)

\* the test made for one pattern of the loop
PatternMatches(name, pattern) ==
    IF EndsWithStar(pattern)
      THEN StartsWith(name, SubSeq(pattern, 1, Len(pattern) - 1))
      ELSE pattern = name

RECURSIVE should_exclude_table(_, _)
should_exclude_table(name, patterns) ==
    IF patterns = <<>> THEN FALSE
    ELSE IF PatternMatches(name, Head(patterns)) THEN TRUE
    ELSE should_exclude_table(name, Tail(patterns))

----------------------------------------------------------------------------
(* Input families. *)

\* column definitions as get_table_metadata stores them; they differ in one
\* attribute along the chain D0 - D1 - D2 - D8 - D5 (type, nullable, default,
\* comment)
D0 == ColDef("INT", TRUE, NoDefault, "")
D1 == ColDef("TEXT", TRUE, NoDefault, "")
D2 == ColDef("TEXT", FALSE, NoDefault, "")
\* a str default; the inspector column has no 'comment' key
D3 == ColDef("TEXT", FALSE, StrDefault(<<"0">>), StoredColumnComment(Absent))
\* the inspector column has the comment None
D5 == ColDef("TEXT", FALSE, NumDefault(1, <<"1">>), StoredColumnComment(None))
\* a default that is already quoted, on a nullable column
D6 == ColDef("INT", TRUE, StrDefault(<<"'", "x", "'">>), "")
\* the defaults 1 and 1.0: equal numbers that are written differently
D7 == ColDef("TEXT", FALSE, NumDefault(1, <<"1">>), "")
D8 == ColDef("TEXT", FALSE, NumDefault(1, <<"1", ".", "0">>), StoredColumnComment(Absent))

DiffSrcColDefs == {D0, D2, D5, D7}
DiffTgtColDefs == {D1, D5, D8}
\* the table comments of the differ's targets: an inspector answer without
\* 'text', and one whose 'text' is None
DiffTgtComments == {StoredTableComment(Absent), StoredTableComment(None)}
GenSrcColDefs == {D2, D6}
GenTgtColDefs == {D0, D2}

SortedOrders == {Sorted(S, 1) : S \in SUBSET ColNames}
BothOrders == SortedOrders \cup {Reverse(o) : o \in SortedOrders}

PKChoices(order, keyed) == IF keyed THEN {<<>>, Reverse(order)} ELSE {<<>>}

TableDefsOver(orders, defs, keyed, comments) ==
    UNION {{TableDef(o, f, pk, c) :
                f \in [Range(o) -> defs], pk \in PKChoices(o, keyed), c \in comments} :
           o \in orders}

SimpleTable == TableDef(<<"a">>, [c \in {"a"} |-> D3], <<"a">>, "")

\* snapshots over one of the table-name sets `domains`, whose table t1 is drawn
\* from t1defs and whose t2 is SimpleTable
Snapshots(t1defs, domains) ==
    UNION {{[t \in D |-> IF t = "t1" THEN d ELSE SimpleTable] :
                d \in (IF "t1" \in D THEN t1defs ELSE {SimpleTable})} :
           D \in domains}

\* selected_tables: the table names of the request, without repetition
TableSelections == UNION {Perms(S) : S \in SUBSET TableNames}

\* selected_columns: a list of column names for some of the tables
ColumnSelections ==
    UNION {{f \in [D -> SortedOrders] : "t2" \in D => f["t2"] = <<"a">>} :
           D \in SUBSET TableNames}

Alphabet == {"a", "b", "*"}
PatternAlphabet == {"a", "*"}

NoSelection == <<>>
NoScript == [status |-> "none", lines |-> <<>>]

----------------------------------------------------------------------------
(* The differ alone, on a wide family of snapshot pairs. *)

InitDiff ==
    /\ src_meta \in Snapshots(TableDefsOver(SortedOrders, DiffSrcColDefs, TRUE, {"", "c"}),
                             SUBSET TableNames)
    /\ tgt_meta \in Snapshots(TableDefsOver(SortedOrders, DiffTgtColDefs, FALSE, DiffTgtComments),
                             SUBSET TableNames)
    /\ diff = EmptyDiff
    /\ selected_tables = NoSelection
    /\ selected_columns = NoSelection
    /\ script = NoScript
    /\ table_name = <<>>
    /\ exclude_tables = <<>>
    /\ excluded = FALSE
    /\ pc = "start"

\* diff = compare_metadata(src_meta, tgt_meta)
Compare ==
    /\ pc = "start"
    /\ diff' \in compare_metadata(src_meta, tgt_meta)
    /\ pc' = "compared"
    /\ UNCHANGED <<src_meta, tgt_meta, selected_tables, selected_columns, script,
                   table_name, exclude_tables, excluded>>

NextDiff == Compare

SpecDiff == InitDiff /\ [][NextDiff]_vars

----------------------------------------------------------------------------
(* The /generate request: compare, then synthesize for a selection. *)

Init ==
    /\ src_meta \in Snapshots(TableDefsOver(BothOrders, GenSrcColDefs, TRUE, {""}),
                             {{"t2"}, {"t1", "t2"}})
    /\ tgt_meta \in Snapshots(TableDefsOver(SortedOrders, GenTgtColDefs, FALSE, {"", "c"}),
                             SUBSET TableNames)
    /\ diff = EmptyDiff
    /\ selected_tables = NoSelection
    /\ selected_columns = NoSelection
    /\ script = NoScript
    /\ table_name = <<>>
    /\ exclude_tables = <<>>
    /\ excluded = FALSE
    /\ pc = "start"

\* script = generate_sync_script(conn_id, src_meta, tgt_meta, diff, tables, columns)
Generate ==
    /\ pc = "compared"
    /\ \E sel_t \in TableSelections, sel_c \in ColumnSelections :
        /\ selected_tables' = sel_t
        /\ selected_columns' = sel_c
        /\ script' = generate_sync_script(src_meta, tgt_meta, diff, sel_t, sel_c)
    /\ pc' = "generated"
    /\ UNCHANGED <<src_meta, tgt_meta, diff, table_name, exclude_tables, excluded>>

Next == Compare \/ Generate

Spec == Init /\ [][Next]_vars

----------------------------------------------------------------------------
(* The table filter on its own. *)

InitFilter ==
    /\ table_name \in SeqsUpTo(Alphabet, MaxNameLen)
    /\ exclude_tables \in SeqsUpTo(SeqsUpTo(PatternAlphabet, MaxPatLen), MaxPatterns)
    /\ excluded = FALSE
    /\ src_meta = <<>>
    /\ tgt_meta = <<>>
    /\ diff = EmptyDiff
    /\ selected_tables = NoSelection
    /\ selected_columns = NoSelection
    /\ script = NoScript
    /\ pc = "filter"

\* excluded = should_exclude_table(table, exclude_tables)
Filter ==
    /\ pc = "filter"
    /\ excluded' = should_exclude_table(table_name, exclude_tables)
    /\ pc' = "filtered"
    /\ UNCHANGED <<src_meta, tgt_meta, diff, selected_tables, selected_columns, script,
                   table_name, exclude_tables>>

NextFilter == Filter

SpecFilter == InitFilter /\ [][NextFilter]_vars

----------------------------------------------------------------------------
(* Properties of the differ, checked under SpecDiff. *)

Compared == pc = "compared"

CommonTables == DOMAIN src_meta \cap DOMAIN tgt_meta

\* a list holds each of its elements once
NoDuplicates(s) == \A i, j \in DOMAIN s : i # j => s[i] # s[j]

\* C1: a table is a key of diff.columns if and only if it is in
\* diff.tables.changed, and no table of diff.tables.missing or
\* diff.tables.extra is a key of diff.columns.
C1_TableColumnConsistency ==
    Compared =>
        /\ \A t \in TableNames :
             t \in DOMAIN diff.columns <=> InList(t, diff.tables.changed)
        /\ \A t \in DOMAIN diff.columns :
             ~InList(t, diff.tables.missing) /\ ~InList(t, diff.tables.extra)

\* a diff with a changed table beside a missing or an extra one
C1_Witness ==
    /\ Compared
    /\ diff.tables.changed # <<>>
    /\ DOMAIN diff.columns # {}
    /\ (diff.tables.missing # <<>> \/ diff.tables.extra # <<>>)

\* what a default is worth: a number is its value however it is written, a
\* str is its characters, no default is itself
DefaultValue(d) == IF d.k = "num" THEN <<"num", d.n>> ELSE <<d.k, d.v>>

\* two column definitions differ in type, nullable, default or comment
\* (field by field as stored, the comment None being a value of its own)
AttributeDiffers(s, t) ==
    \/ s.type # t.type
    \/ s.nullable # t.nullable
    \/ DefaultValue(s.default) # DefaultValue(t.default)
    \/ s.comment # t.comment

\* C2: for every table reported in diff.columns, missing is the source
\* columns minus the target columns, extra is the target columns minus the
\* source columns, the keys of changed are exactly the common columns with a
\* differing attribute, and the three are pairwise disjoint with no column
\* listed twice.
C2_ColumnPartition ==
    Compared =>
        \A t \in DOMAIN diff.columns :
            LET cd == diff.columns[t]
                s == src_meta[t].columns
                g == tgt_meta[t].columns
            IN  /\ Range(cd.missing) = DOMAIN s \ DOMAIN g
                /\ Range(cd.extra) = DOMAIN g \ DOMAIN s
                /\ DOMAIN cd.changed =
                     {c \in DOMAIN s \cap DOMAIN g : AttributeDiffers(s[c], g[c])}
                /\ Range(cd.changed_keys) = DOMAIN cd.changed
                /\ NoDuplicates(cd.missing)
                /\ NoDuplicates(cd.extra)
                /\ NoDuplicates(cd.changed_keys)
                /\ Range(cd.missing) \cap Range(cd.extra) = {}
                /\ Range(cd.missing) \cap DOMAIN cd.changed = {}
                /\ Range(cd.extra) \cap DOMAIN cd.changed = {}

\* a changed table with an extra column beside a changed column
C2_Witness ==
    /\ Compared
    /\ \E t \in DOMAIN diff.columns :
        /\ diff.columns[t].extra # <<>>
        /\ DOMAIN diff.columns[t].changed # {}

\* C3: comparing a snapshot with itself gives empty tables.missing,
\* tables.extra, tables.changed and an empty columns mapping.
C3_SelfDiffEmpty ==
    (Compared /\ src_meta = tgt_meta) =>
        /\ diff.tables.missing = <<>>
        /\ diff.tables.extra = <<>>
        /\ diff.tables.changed = <<>>
        /\ DOMAIN diff.columns = {}

\* a self-comparison of a snapshot with two tables, one of two columns whose
\* comments are None
C3_Witness ==
    /\ Compared
    /\ src_meta = tgt_meta
    /\ DOMAIN src_meta = TableNames
    /\ Len(src_meta["t1"].order) >= 2
    /\ \A c \in DOMAIN src_meta["t1"].columns : src_meta["t1"].columns[c].comment = None

\* the column part of a structural difference between two table definitions
ColumnsDiffer(s, g) ==
    \/ DOMAIN s.columns # DOMAIN g.columns
    \/ \E c \in DOMAIN s.columns \cap DOMAIN g.columns :
         AttributeDiffers(s.columns[c], g.columns[c])

\* the table comments differ as stored, the comment None being a value of
\* its own
TableCommentsDiffer(s, g) == s.comment # g.comment

\* C4 as stated: a table of both snapshots is in tables.changed exactly when the
\* column-name sets differ, or a common column differs in an attribute, or a
\* table attribute (comment, primary_key) differs.
C4_ChangedIffAnyAttributeDiffers ==
    Compared =>
        \A t \in CommonTables :
            InList(t, diff.tables.changed) <=>
                \/ ColumnsDiffer(src_meta[t], tgt_meta[t])
                \/ TableCommentsDiffer(src_meta[t], tgt_meta[t])
                \/ src_meta[t].primary_key # tgt_meta[t].primary_key

\* C4 as amended: a table of both snapshots is in tables.changed exactly when
\* the column-name sets differ, or a common column differs in an attribute, or
\* the table comments differ; primary_key is not compared.
C4_ChangedIffColumnsOrCommentDiffer ==
    Compared =>
        \A t \in CommonTables :
            InList(t, diff.tables.changed) <=>
                \/ ColumnsDiffer(src_meta[t], tgt_meta[t])
                \/ TableCommentsDiffer(src_meta[t], tgt_meta[t])

\* two tables that differ in primary_key alone, reported as unchanged, beside
\* nothing else in the diff
C4_Witness ==
    /\ Compared
    /\ \E t \in CommonTables :
        /\ src_meta[t].primary_key # tgt_meta[t].primary_key
        /\ DOMAIN src_meta[t].columns # {}
        /\ ~InList(t, diff.tables.changed)

\* a column's comment as a string, an absent one (None) being the empty string
CommentText(col_def) == IF col_def.comment = None THEN "" ELSE col_def.comment

\* two column definitions agree in type, nullable and default
SameButComment(s, g) ==
    /\ s.type = g.type
    /\ s.nullable = g.nullable
    /\ DefaultValue(s.default) = DefaultValue(g.default)

\* C12: a common column whose other attributes are equal is reported in
\* changed exactly when the comments differ as strings, an absent comment
\* (None in a snapshot) being the empty string; a table whose only difference
\* is an absent column comment against an empty one is not in tables.changed.
C12_AbsentCommentIsEmpty ==
    Compared =>
        \A t \in CommonTables :
            LET s == src_meta[t].columns
                g == tgt_meta[t].columns
                reported == IF t \in DOMAIN diff.columns
                              THEN DOMAIN diff.columns[t].changed ELSE {}
            IN  /\ \A c \in DOMAIN s \cap DOMAIN g :
                     SameButComment(s[c], g[c]) =>
                         (c \in reported <=> CommentText(s[c]) # CommentText(g[c]))
                /\ ( /\ DOMAIN s = DOMAIN g
                     /\ \A c \in DOMAIN s :
                          SameButComment(s[c], g[c]) /\ CommentText(s[c]) = CommentText(g[c])
                     /\ ~TableCommentsDiffer(src_meta[t], tgt_meta[t]) )
                   => ~InList(t, diff.tables.changed)

----------------------------------------------------------------------------
(* Properties of the synthesizer, checked under Spec. *)

Generated == pc = "generated"

Returned == Generated /\ script.status = "ok"

Selected == Range(selected_tables)

IsCommentKind(kind) ==
    kind \in {"-- header", "-- create", "-- alter", "-- extra tables",
              "-- DROP TABLE", "-- done"}

\* the positions of the script's lines of one kind about table t
LinesAbout(t, kind) ==
    {i \in DOMAIN script.lines : script.lines[i].table = t /\ script.lines[i].kind = kind}

\* the columns of table t that the request selects
SelectedNames(t) ==
    IF t \in DOMAIN selected_columns THEN Range(selected_columns[t]) ELSE {}

Without(s, x) == SelectSeq(s, LAMBDA y : y # x)

\* C5: a selected table that is in neither snapshot does not make
\* generate_sync_script fail: the script is returned, has no line about that
\* table and is the script of the selection without it.
C5_UnknownTableIsSkipped ==
    Generated =>
        \A t \in Selected :
            t \notin DOMAIN src_meta \cup DOMAIN tgt_meta =>
                /\ script.status = "ok"
                /\ \A i \in DOMAIN script.lines : script.lines[i].table # t
                /\ script = generate_sync_script(src_meta, tgt_meta, diff,
                                                 Without(selected_tables, t),
                                                 selected_columns)

\* C6: a selected table of diff.tables.extra appears in the returned script
\* only in a commented-out advisory line, never in an executable statement.
C6_ExtraTableOnlyAdvised ==
    Generated =>
        \A t \in Selected :
            InList(t, diff.tables.extra) =>
                /\ script.status = "ok"
                /\ LinesAbout(t, "-- DROP TABLE") # {}
                /\ \A i \in DOMAIN script.lines :
                     script.lines[i].table = t => script.lines[i].kind = "-- DROP TABLE"

\* C7: for a selected table of diff.tables.missing, the column clauses of its
\* CREATE TABLE statement are exactly the source columns listed in
\* selected_columns[table], one clause each, and none when the table has no
\* entry in selected_columns.
C7_CreateColumnsAreSelected ==
    Returned =>
        \A t \in Selected :
            InList(t, diff.tables.missing) =>
                LET clauses == LinesAbout(t, "COLUMN")
                    wanted == DOMAIN src_meta[t].columns \cap SelectedNames(t)
                IN  /\ LinesAbout(t, "CREATE TABLE (") # {}
                    /\ {script.lines[i].col : i \in clauses} = wanted
                    /\ Cardinality(clauses) = Cardinality(wanted)
                    /\ t \notin DOMAIN selected_columns => clauses = {}

\* a CREATE TABLE for a table of two source columns of which one is selected,
\* beside one for a table that has no entry in selected_columns
C7_Witness ==
    /\ Returned
    /\ \E t \in Selected :
        /\ InList(t, diff.tables.missing)
        /\ Cardinality(DOMAIN src_meta[t].columns) >= 2
        /\ Cardinality(LinesAbout(t, "COLUMN")) = 1
    /\ \E t \in Selected :
        /\ InList(t, diff.tables.missing)
        /\ t \notin DOMAIN selected_columns
        /\ LinesAbout(t, "CREATE TABLE (") # {}

\* a rendered clause carries the definition's type, NOT NULL iff it is not
\* nullable, and DEFAULT iff it has a default
ClauseRenders(clause, col_def) ==
    /\ clause.type = col_def.type
    /\ clause.notnull <=> ~col_def.nullable
    /\ clause.default.has <=> col_def.default # NoDefault

\* C8: for a selected table of diff.tables.changed, the executable statements
\* are exactly one ADD COLUMN per selected column of columns[table].missing
\* and one MODIFY COLUMN per selected column of columns[table].changed, each
\* rendering the source definition; nothing is emitted for unselected columns
\* or for columns[table].extra.
C8_AlterStatementsFromSource ==
    Returned =>
        \A t \in Selected :
            InList(t, diff.tables.changed) =>
                LET adds == Range(diff.columns[t].missing) \cap SelectedNames(t)
                    mods == DOMAIN diff.columns[t].changed \cap SelectedNames(t)
                    stmts == {i \in DOMAIN script.lines :
                                 /\ script.lines[i].table = t
                                 /\ ~IsCommentKind(script.lines[i].kind)}
                IN  /\ \A i \in stmts :
                         LET l == script.lines[i]
                         IN  /\ \/ l.kind = "ADD COLUMN" /\ l.col \in adds
                                \/ l.kind = "MODIFY COLUMN" /\ l.col \in mods
                             /\ ClauseRenders(l.clause, src_meta[t].columns[l.col])
                    /\ {script.lines[i].col : i \in LinesAbout(t, "ADD COLUMN")} = adds
                    /\ {script.lines[i].col : i \in LinesAbout(t, "MODIFY COLUMN")} = mods
                    /\ Cardinality(stmts) = Cardinality(adds) + Cardinality(mods)

\* a changed table with an ADD COLUMN and a MODIFY COLUMN whose target
\* definition would render differently
C8_Witness ==
    /\ Returned
    /\ \E t \in Selected :
        /\ InList(t, diff.tables.changed)
        /\ LinesAbout(t, "ADD COLUMN") # {}
        /\ \E i \in LinesAbout(t, "MODIFY COLUMN") :
             ~ClauseRenders(script.lines[i].clause, tgt_meta[t].columns[script.lines[i].col])

\* the position of x in the list s
IndexIn(x, s) == CHOOSE i \in DOMAIN s : s[i] = x

\* C9: table blocks appear in selected_tables order, and within a block the
\* CREATE TABLE clauses, the ADD COLUMN statements and the MODIFY COLUMN
\* statements each list their columns in the source snapshot's column order.
C9_OutputInSourceOrder ==
    Returned =>
        \A i, j \in DOMAIN script.lines :
            LET a == script.lines[i]
                b == script.lines[j]
            IN  /\ (i < j /\ a.table \in Selected /\ b.table \in Selected)
                     => IndexIn(a.table, selected_tables) <= IndexIn(b.table, selected_tables)
                /\ (i < j /\ a.table = b.table /\ a.kind = b.kind
                        /\ a.kind \in {"COLUMN", "ADD COLUMN", "MODIFY COLUMN"})
                     => IndexIn(a.col, src_meta[a.table].order)
                          < IndexIn(b.col, src_meta[b.table].order)

\* C11: for a selected table of diff.tables.missing, the CREATE TABLE
\* statement has a PRIMARY KEY clause if and only if the source primary_key
\* is not empty, and the clause lists the key columns in the order of the
\* source primary_key, selected or not.
C11_PrimaryKeyClause ==
    Returned =>
        \A t \in Selected :
            InList(t, diff.tables.missing) =>
                LET keys == LinesAbout(t, "PRIMARY KEY")
                IN  /\ keys # {} <=> src_meta[t].primary_key # <<>>
                    /\ Cardinality(keys) <= 1
                    /\ \A i \in keys :
                         /\ script.lines[i].pk = src_meta[t].primary_key
                         /\ \E o \in LinesAbout(t, "CREATE TABLE (") : o < i
                         /\ \E c \in LinesAbout(t, ");") : i < c

\* a CREATE TABLE whose key has two columns, in another order than the
\* table's columns, of which one is not selected
C11_Witness ==
    /\ Returned
    /\ \E t \in Selected :
        /\ InList(t, diff.tables.missing)
        /\ Len(src_meta[t].primary_key) = 2
        /\ src_meta[t].primary_key # src_meta[t].order
        /\ \E c \in Range(src_meta[t].primary_key) : c \notin SelectedNames(t)
        /\ \E c \in Range(src_meta[t].primary_key) : c \in SelectedNames(t)
        /\ LinesAbout(t, "PRIMARY KEY") # {}

----------------------------------------------------------------------------
(* Properties of the table filter, checked under SpecFilter. *)

\* the pattern matches the name as C10 states it: a final `*` makes the rest
\* of the pattern a prefix, any other pattern must equal the name
MatchesAsStated(name, pattern) ==
    IF Len(pattern) > 0 /\ pattern[Len(pattern)] = "*"
      THEN /\ Len(name) >= Len(pattern) - 1
           /\ \A k \in 1..(Len(pattern) - 1) : name[k] = pattern[k]
      ELSE /\ Len(name) = Len(pattern)
           /\ \A k \in 1..Len(pattern) : name[k] = pattern[k]

UsersBackup == <<"u", "s", "e", "r", "s", "_", "b", "a", "c", "k", "u", "p", "_">>
Users == <<"u", "s", "e", "r", "s">>
Logs == <<"l", "o", "g", "s">>

\* C10: should_exclude_table is true if and only if some pattern matches as
\* stated; it is false for an empty pattern list, and the four examples of the
\* specification come out as stated.
C10_ExcludedIffSomePatternMatches ==
    /\ pc = "filtered" =>
        /\ excluded <=> \E i \in DOMAIN exclude_tables :
                            MatchesAsStated(table_name, exclude_tables[i])
        /\ exclude_tables = <<>> => ~excluded
    /\ should_exclude_table(UsersBackup \o <<"2", "0", "2", "3">>, <<UsersBackup \o <<"*">>>>)
    /\ ~should_exclude_table(Users, <<UsersBackup \o <<"*">>>>)
    /\ should_exclude_table(Logs, <<Logs>>)
    /\ ~should_exclude_table(Logs \o <<"2">>, <<Logs>>)

\* a name excluded by the second pattern, a proper prefix with a final `*`,
\* after a first pattern with an interior `*` that does not match
C10_Witness ==
    /\ pc = "filtered"
    /\ excluded
    /\ Len(exclude_tables) = 2
    /\ exclude_tables[1] = <<"*", "a">>
    /\ exclude_tables[2] = <<"a", "*">>
    /\ Len(table_name) = 3

====
